---- MODULE Spec2Model ----
(***************************************************************************)
(* A state-machine model of the lewicki actor runtime                      *)
(* (lewicki/messages.py, lewicki/actors/__init__.py), of the worker pool   *)
(* built on it (lewicki/actors/pool.py) and of the two example programs    *)
(* that drive them (examples/pool.py, examples/simple_system.py).          *)
(*                                                                         *)
(* Actor names are modelled as integers: Sys is the manager, 1..n are the  *)
(* managed actors in the order they are handed to connect.  Names stand    *)
(* for non-empty strings, so every name is truthy; None is Python's None.  *)
(* Message ids (uuid4().time_low) are modelled as fresh: nextId counts.    *)
(* Indices into the input sequence are 0-based as in the code; the TLA+    *)
(* sequences xs and result are 1-based, hence the "+ 1" where they are     *)
(* read or written.                                                        *)
(***************************************************************************)
EXTENDS Integers, Sequences, FiniteSets, TLC

\* ---------------------------------------------------------------- bounds
MaxLen == 3
MaxProcs == 2
MaxVal == 2
MaxActors == 4
MaxCalls == 2

\* ------------------------------------------------------------- constants
None == -1
Sys == 0

Values == 1 .. MaxVal
MaxMembers == IF MaxProcs > MaxActors THEN MaxProcs ELSE MaxActors
Names == 0 .. MaxMembers
Inputs == UNION {[1 .. n -> Values] : n \in 0 .. MaxLen}

\* MessageKind (the enum's members)
MessageKind == {"DEFAULT", "CALL", "RETURN", "ACK", "SET"}

\* Mutant: the correlation parameter spelled the way the callers spell it.
MessageParamsPrevId == {"data", "receiver", "sender", "kind", "prev_id"}

\* The keyword parameters Message.__init__ accepts, and the attributes a
\* Message object has (__slots__).
MessageParams == {"data", "receiver", "sender", "kind", "previous_id"}
MessageSlots == {"id", "previous_id", "sender", "receiver", "kind", "data"}

\* A call Message(..., **kw) raises TypeError unless every keyword is a
\* parameter; reading msg.<attr> raises AttributeError unless it is a slot.
Accepts(kw) == kw \subseteq MessageParams
HasAttr(attr) == attr \in MessageSlots

\* The keywords each call site passes.
HandleCallKw == {"sender", "receiver", "kind", "prev_id"}
ForwardKw == {"sender", "receiver", "prev_id"}
\* The attribute MapActorSystem.handle_return reads the correlation id from.
ReturnIdAttr == "prev_id"

Message(id, data, receiver, sender, kind, previous_id) ==
    [id |-> id, previous_id |-> previous_id, sender |-> sender,
     receiver |-> receiver, kind |-> kind, data |-> data]

\* The mapped function of examples/pool.py.
add_one(v) == v + 1

VARIABLES
    prog,             \* which program runs: "map" or "forward"
    xs,               \* map: the input sequence
    processes,        \* map: ActorPool.processes
    raises,           \* map: the values on which the mapped function raises
    complete,         \* forward: connect's complete flag
    batch,            \* the actors handed to connect, in order
    pc,               \* position of the main thread
    calls,            \* how many times the main thread has called connect
    i,                \* index of the main thread's current for-loop
    actors,           \* the manager's self.actors
    procs,            \* the keys of the manager's self._actors, in order
    state,            \* per actor: Idle, Running, Stopped or Faulted
    outbox,           \* per actor: the keys of its outbox, in insertion order
    inbox,            \* per actor: its mailbox
    attrs,            \* per actor: self.attrs
    count,            \* per actor: SimpleActor.count
    iterable,         \* coordinator: items already drawn from self.iterable
    remaining_items,  \* coordinator: self.remaining_items
    result_map,       \* coordinator: self.result_map
    result,           \* coordinator: self.result
    nextId,           \* the next fresh message id
    sent,             \* history: every envelope put into a mailbox, in order
    invoked,          \* history: per actor, how often handle_call invoked a method
    handed,           \* history: each item drawn from the source and the CALL carrying it
    written,          \* history: per index, how often its result slot was written
    starts,           \* history: per actor, how often its handle was started
    joins             \* history: per actor, how often its handle was joined

inputVars == <<prog, xs, processes, raises, complete, batch>>
coordVars == <<iterable, remaining_items, result_map, result>>
histVars == <<invoked, handed, written, starts, joins>>
vars == <<prog, xs, processes, raises, complete, batch, pc, calls, i, actors, procs,
          state, outbox, inbox, attrs, count, iterable, remaining_items,
          result_map, result, nextId, sent, invoked, handed, written,
          starts, joins>>

\* Mutant: the pool size is used as it is.
Second(a, b) == b

Min(a, b) == IF a < b THEN a ELSE b
Range(s) == {s[k] : k \in 1 .. Len(s)}
SeqOfCount(n) == [k \in 1 .. n |-> k]
EmptyDict == <<>>


\* ------------------------------------------------------------- topology
\* Mutant: every key is appended, present or not (a list for the dict).
DictExtend(keys, new) == keys \o new

\* Mutant: the assignment to the dict is lost.
SetItemLost(d, key, value) == d

\* d[key] = value
SetItem(d, key, value) == (key :> value) @@ d

\* dict.update with keys only: a key already present keeps its place.
RECURSIVE DictUpdate(_, _)
DictUpdate(keys, new) ==
    IF new = <<>> THEN keys
    ELSE DictUpdate(IF Head(new) \in Range(keys) THEN keys
                    ELSE Append(keys, Head(new)),
                    Tail(new))

\* BaseActor.connect: a's outbox gains an entry for each peer.
connect(ob, a, peers) == [ob EXCEPT ![a] = DictUpdate(@, peers)]

\* "for a in actors: a.connect(self)"
RECURSIVE ConnectEach(_, _, _)
ConnectEach(ob, s, k) ==
    IF k > Len(s) THEN ob
    ELSE ConnectEach(connect(ob, s[k], <<Sys>>), s, k + 1)

\* itertools.combinations(actors, r=2), walked in its (lexicographic) order,
\* connecting each pair in both directions.
RECURSIVE MakeCompleteFrom(_, _, _, _)
MakeCompleteFrom(ob, s, p, q) ==
    IF p >= Len(s) THEN ob
    ELSE IF q > Len(s) THEN MakeCompleteFrom(ob, s, p + 1, p + 2)
    ELSE MakeCompleteFrom(connect(connect(ob, s[p], <<s[q]>>), s[q], <<s[p]>>),
                          s, p, q + 1)

\* Mutant: each pair is connected in one direction only.
RECURSIVE MakeOneWayFrom(_, _, _, _)
MakeOneWayFrom(ob, s, p, q) ==
    IF p >= Len(s) THEN ob
    ELSE IF q > Len(s) THEN MakeOneWayFrom(ob, s, p + 1, p + 2)
    ELSE MakeOneWayFrom(connect(ob, s[p], <<s[q]>>), s, p, q + 1)

make_complete_one_way(ob, s) == MakeOneWayFrom(ob, s, 1, 2)

make_complete(ob, s) == MakeCompleteFrom(ob, s, 1, 2)

\* Mutant: the complete flag is ignored, the actors are always meshed.
system_connect_meshed(ob, s, cmpl) ==
    make_complete(ConnectEach(connect(ob, Sys, s), s, 1), s)

\* MessageActorSystem.connect, the part that wires outboxes.
system_connect(ob, s, cmpl) ==
    LET ob1 == connect(ob, Sys, s)
        ob2 == ConnectEach(ob1, s, 1)
    IN  IF cmpl THEN make_complete(ob2, s) ELSE ob2

\* ---------------------------------------------------------------- Init
\* The state after the objects are constructed and before connect is called:
\* ActorPool.map lines 16-18 (MapActor.__init__, MapActorSystem.__init__), or
\* the __main__ of examples/simple_system.py lines 43-44.
InitMap ==
    /\ prog = "map"
    /\ xs \in Inputs
    /\ processes \in 1 .. MaxProcs
    /\ raises \in SUBSET Values
    /\ complete = FALSE
    /\ batch = SeqOfCount(Min(Len(xs), processes))
    /\ attrs = [a \in Names |-> IF a \in Range(batch) THEN ("_stop" :> FALSE)
                                ELSE EmptyDict]

InitForward ==
    /\ prog = "forward"
    /\ xs = <<>>
    /\ processes = 1
    /\ raises = {}
    /\ complete \in BOOLEAN
    /\ \E n \in 0 .. MaxActors : batch = SeqOfCount(n)
    /\ attrs = [a \in Names |-> EmptyDict]

Init ==
    /\ (InitMap \/ InitForward)
    /\ pc = "connect"
    /\ calls = 0
    /\ i = 1
    /\ actors = <<>>
    /\ procs = <<>>
    /\ state = [a \in Names |-> "Idle"]
    /\ outbox = [a \in Names |-> <<>>]
    /\ inbox = [a \in Names |-> <<>>]
    /\ count = [a \in Names |-> 0]
    /\ iterable = 0
    /\ remaining_items = Len(xs)
    /\ result_map = EmptyDict
    /\ result = [k \in 1 .. Len(xs) |-> None]
    /\ nextId = 1
    /\ sent = <<>>
    /\ invoked = [a \in Names |-> 0]
    /\ handed = <<>>
    /\ written = [k \in 0 .. Len(xs) - 1 |-> 0]
    /\ starts = [a \in Names |-> 0]
    /\ joins = [a \in Names |-> 0]

\* ------------------------------------------------------------- mailboxes
\* outbox[m.receiver].put(m): `via` is the actor whose process does the put.
Put(ib, via, m) == [ib EXCEPT ![m.receiver] = Append(@, [via |-> via, msg |-> m])]

RECURSIVE PutAll(_, _, _)
PutAll(ib, via, ms) ==
    IF ms = <<>> THEN ib ELSE PutAll(Put(ib, via, Head(ms)), via, Tail(ms))

Logged(via, ms) == [k \in 1 .. Len(ms) |-> [via |-> via, msg |-> ms[k]]]

\* Mutant: a mailbox hands out its envelopes in any order.
ReceivableAny(q) == 1 .. Len(q)

\* inbox.get(block=True).  A multiprocessing queue delivers the puts of one
\* process in order and interleaves the puts of different processes: the
\* envelopes that can come out next are the oldest of each putting process.
Receivable(q) ==
    {k \in 1 .. Len(q) : \A j \in 1 .. k - 1 : q[j].via # q[k].via}

RemoveAt(q, k) == [j \in 1 .. Len(q) - 1 |-> IF j < k THEN q[j] ELSE q[j + 1]]

\* ---------------------------------------------------------- main thread
\* The actors a call of connect can be given: the first call gets the batch
\* the program built; a later call gets actors already connected, new ones, or
\* both.
NextBatches ==
    IF calls = 0 THEN {batch} ELSE {SeqOfCount(n) : n \in 1 .. MaxActors}

\* What the main thread does after a call of connect: ActorPool.map goes on to
\* run (pool.py 19-20); a program that uses a manager directly may call
\* connect again before it calls run.
AfterConnect ==
    IF prog = "map" THEN {"bootstrap"}
    ELSE IF calls + 1 < MaxCalls THEN {"connect", "populate"}
    ELSE {"populate"}

\* system.connect(*actors): MessageActorSystem.connect (MapActorSystem.connect
\* passes complete=False).
Connect ==
    /\ pc = "connect"
    /\ \E b \in NextBatches :
          /\ outbox' = system_connect(outbox, b, complete)
          /\ actors' = actors \o b
          /\ procs' = DictUpdate(procs, b)
    /\ calls' = calls + 1
    /\ pc' \in AfterConnect
    /\ i' = 1
    /\ UNCHANGED <<inputVars, state, inbox, attrs, count, coordVars, nextId,
                   sent, histVars>>


\* Mutant: the first CALL is sent twice.
FirstMessagesTwoCalls(actor, value, id) ==
    <<Message(id, [name |-> "_func", value |-> "func"], actor, None, "SET", None),
      Message(id + 1, [name |-> "_func", args |-> <<value>>], actor, Sys, "CALL",
              None),
      Message(id + 2, [name |-> "_func", args |-> <<value>>], actor, Sys, "CALL",
              None)>>

\* The two envelopes MapActorSystem.run sends a worker (lines 59-70): the SET
\* that installs the mapped function, then the CALL with the worker's first item.
FirstMessages(actor, value, id) ==
    <<Message(id, [name |-> "_func", value |-> "func"], actor, None, "SET", None),
      Message(id + 1, [name |-> "_func", args |-> <<value>>], actor, Sys, "CALL",
              None)>>

\* MapActorSystem.run, one iteration of "for actor in self.outbox" (lines
\* 57-74); once the loop is over, super().run() is entered.
Bootstrap ==
    /\ pc = "bootstrap"
    /\ IF i > Len(outbox[Sys])
       THEN /\ pc' = "start"
            /\ i' = 1
            /\ UNCHANGED <<inbox, sent, nextId, coordVars, handed>>
       ELSE IF iterable >= Len(xs)
       THEN \* next(self.iterable) raises StopIteration out of run
            /\ pc' = "raised"
            /\ UNCHANGED <<i, inbox, sent, nextId, coordVars, handed>>
       ELSE LET actor == outbox[Sys][i]
                idx == iterable
                value == xs[idx + 1]
                msgs == FirstMessages(actor, value, nextId)
                msg2 == msgs[2]
            IN  /\ inbox' = PutAll(inbox, Sys, msgs)
                /\ sent' = sent \o Logged(Sys, msgs)
                /\ nextId' = nextId + Len(msgs)
                /\ iterable' = iterable + 1
                /\ result_map' = SetItem(result_map, msg2.id, idx)
                /\ handed' = Append(handed, [idx |-> idx, to |-> actor, id |-> msg2.id])
                /\ i' = i + 1
                /\ UNCHANGED <<pc, remaining_items, result>>
    /\ UNCHANGED <<inputVars, calls, actors, procs, state, outbox, attrs, count,
                   invoked, written, starts, joins>>

\* SimpleActorSystem.run, one iteration of the loop that sends each actor a
\* DEFAULT message carrying its position (lines 17-19).
Populate ==
    /\ pc = "populate"
    /\ IF i > Len(outbox[Sys])
       THEN /\ pc' = "start"
            /\ i' = 1
            /\ UNCHANGED <<inbox, sent, nextId>>
       ELSE LET msg == Message(nextId, i - 1, outbox[Sys][i], Sys, "DEFAULT", None)
            IN  /\ inbox' = Put(inbox, Sys, msg)
                /\ sent' = sent \o Logged(Sys, <<msg>>)
                /\ nextId' = nextId + 1
                /\ i' = i + 1
                /\ UNCHANGED pc
    /\ UNCHANGED <<inputVars, calls, actors, procs, state, outbox, attrs, count,
                   coordVars, histVars>>

\* MessageActorSystem.run lines 238-239: start every handle, in the order of
\* self._actors; then the manager enters its own loop (line 240).
Start ==
    /\ pc = "start"
    /\ IF i > Len(procs)
       THEN /\ pc' = "loop"
            /\ i' = 1
            /\ state' = [state EXCEPT ![Sys] = "Running"]
            /\ UNCHANGED starts
       ELSE /\ state' = [state EXCEPT ![procs[i]] = "Running"]
            /\ starts' = [starts EXCEPT ![procs[i]] = @ + 1]
            /\ i' = i + 1
            /\ UNCHANGED pc
    /\ UNCHANGED <<inputVars, calls, actors, procs, outbox, inbox, attrs, count,
                   coordVars, nextId, sent, invoked, handed, written, joins>>

\* MessageActorSystem.run lines 241-242: join every handle, in order; a join
\* returns once the process has exited, however it exited.  After the last
\* join run returns (and MapActorSystem.run returns self.result).
\* Mutant: join does not wait for the process.
ExitedOrNot(a) == state[a] \in {"Idle", "Running", "Stopped", "Faulted"}

Exited(a) == state[a] \in {"Stopped", "Faulted"}

Join ==
    /\ pc = "join"
    /\ IF i > Len(procs)
       THEN /\ pc' = "returned"
            /\ UNCHANGED <<i, joins>>
       ELSE /\ Exited(procs[i])
            /\ joins' = [joins EXCEPT ![procs[i]] = @ + 1]
            /\ i' = i + 1
            /\ UNCHANGED pc
    /\ UNCHANGED <<inputVars, calls, actors, procs, state, outbox, inbox, attrs, count,
                   coordVars, nextId, sent, invoked, handed, written, starts>>


\* ------------------------------------------------------------- dispatch
\* The class of each actor object, which decides the overrides that run.
ClassOf(a) ==
    IF a = Sys THEN (IF prog = "map" THEN "MapActorSystem" ELSE "SimpleActorSystem")
    ELSE (IF prog = "map" THEN "MapActor" ELSE "SimpleActor")

\* Mutant: the coordinator stops one item early.
should_stop_early(a) ==
    CASE ClassOf(a) = "MapActor" -> attrs[a]["_stop"]
      [] ClassOf(a) = "MapActorSystem" -> remaining_items <= 1
      [] ClassOf(a) = "SimpleActor" -> count[a] > 1
      [] OTHER -> TRUE

\* should_stop: MapActor (pool.py 30-31), MapActorSystem (pool.py 106-107),
\* SimpleActor (simple_system.py 38-39), MessageActorSystem (__init__.py 248-250).
should_stop(a) ==
    CASE ClassOf(a) = "MapActor" -> attrs[a]["_stop"]
      [] ClassOf(a) = "MapActorSystem" -> remaining_items = 0
      [] ClassOf(a) = "SimpleActor" -> count[a] > 1
      [] OTHER -> TRUE

\* What handling one envelope does to the handling actor: whether it raised,
\* the envelopes it sent (in order), and its own state afterwards.
Coord == [iterable |-> iterable, remaining_items |-> remaining_items,
          result_map |-> result_map, result |-> result]

NoEffect(a) == [fault |-> FALSE, out |-> <<>>, attrs |-> attrs[a],
                count |-> count[a], coord |-> Coord, invoked |-> 0,
                hand |-> <<>>, wrote |-> <<>>]

Raise(a, inv) == [NoEffect(a) EXCEPT !.fault = TRUE, !.invoked = inv]

\* data.get('args', ()) and data.get('return', True)
Args(data) == IF "args" \in DOMAIN data THEN data.args ELSE <<>>
WantReturn(data) == IF "return" \in DOMAIN data THEN data["return"] ELSE TRUE

\* self.send(m) looks m.receiver up in the outbox: KeyError when absent.
CanSend(a, receiver) == receiver \in Range(outbox[a])

\* MessageActor.handle_call (lines 115-132).  The only callable ever stored
\* in attrs is the mapped function, under "_func"; it takes one argument.
handle_call(a, msg) ==
    LET data == msg.data
        args == Args(data)
    IN  IF data.name \notin DOMAIN attrs[a] THEN Raise(a, 0)
        ELSE IF data.name # "_func" \/ Len(args) # 1 THEN Raise(a, 0)
        ELSE IF args[1] \in raises THEN Raise(a, 1)
        ELSE IF ~(msg.sender # None /\ WantReturn(data))
             THEN [NoEffect(a) EXCEPT !.invoked = 1]
        ELSE IF ~Accepts(HandleCallKw) THEN Raise(a, 1)
        ELSE IF ~CanSend(a, msg.sender) THEN Raise(a, 1)
        ELSE [NoEffect(a) EXCEPT
                 !.invoked = 1,
                 !.out = <<Message(nextId, add_one(args[1]), msg.sender, a,
                                   "RETURN", msg.id)>>]

\* Mutant: the SET is dispatched but nothing is stored.
handle_set_dropped(a, msg) == NoEffect(a)

\* MessageActor.handle_set (lines 147-150)
handle_set(a, msg) ==
    [NoEffect(a) EXCEPT !.attrs = (msg.data.name :> msg.data.value) @@ attrs[a]]

\* MapActorSystem.handle_return (pool.py 81-104)
map_handle_return(a, msg) ==
    IF ~HasAttr(ReturnIdAttr) THEN Raise(a, 0)
    ELSE IF msg.previous_id \notin DOMAIN result_map THEN Raise(a, 0)
    ELSE
    LET id == msg.previous_id
        value_idx == result_map[id]
        rm == [k \in DOMAIN result_map \ {id} |-> result_map[k]]
        res == [result EXCEPT ![value_idx + 1] = msg.data]
        more == iterable < Len(xs)
        idx == iterable
        next == IF more
                THEN Message(nextId, [name |-> "_func", args |-> <<xs[idx + 1]>>],
                             msg.sender, Sys, "CALL", None)
                ELSE Message(nextId, [name |-> "_stop", value |-> TRUE],
                             msg.sender, None, "SET", None)
        done == [iterable |-> IF more THEN iterable + 1 ELSE iterable,
                 remaining_items |-> remaining_items - 1,
                 result_map |-> IF more THEN SetItem(rm, next.id, idx) ELSE rm,
                 result |-> res]
        new == IF more THEN <<[idx |-> idx, to |-> msg.sender, id |-> next.id]>>
               ELSE <<>>
    IN  IF ~CanSend(a, msg.sender)
        THEN [NoEffect(a) EXCEPT !.fault = TRUE, !.coord = done, !.hand = new,
                                 !.wrote = <<value_idx>>]
        ELSE [NoEffect(a) EXCEPT !.coord = done, !.out = <<next>>, !.hand = new,
                                 !.wrote = <<value_idx>>]

\* SimpleActor.on_next (simple_system.py 30-36): msg is rebound in the loop,
\* so each copy names the one before it as its predecessor.
RECURSIVE Copies(_, _, _, _, _)
Copies(a, data, prev, id, k) ==
    IF k > Len(outbox[a]) THEN <<>>
    ELSE <<Message(id, data, outbox[a][k], a, "DEFAULT", prev)>>
         \o Copies(a, data, id, id + 1, k + 1)

simple_on_next(a, msg) ==
    IF outbox[a] # <<>> /\ ~Accepts(ForwardKw) THEN Raise(a, 0)
    ELSE [NoEffect(a) EXCEPT !.out = Copies(a, msg.data, msg.id, nextId, 1),
                             !.count = count[a] + 1]

\* MessageActor.run lines 102-113: the dispatch on the envelope's kind, with
\* the overrides of the actor's class (should_ignore is always False).
Dispatch(a, msg) ==
    CASE msg.kind = "DEFAULT" ->
            IF ClassOf(a) = "SimpleActor" THEN simple_on_next(a, msg)
            ELSE NoEffect(a)
      [] msg.kind = "CALL" -> handle_call(a, msg)
      [] msg.kind = "RETURN" ->
            IF ClassOf(a) = "MapActorSystem" THEN map_handle_return(a, msg)
            ELSE NoEffect(a)
      [] msg.kind = "SET" -> handle_set(a, msg)
      [] OTHER -> NoEffect(a)

\* Mutant: the loop body is left after one envelope (an "if" for the "while").
AfterDispatchOnce(e) == IF e.fault THEN "Faulted" ELSE "Stopped"

\* Where the actor is once an envelope has been dispatched: back at the top of
\* the while loop (line 100), or out of run through the exception.
AfterDispatch(e) == IF e.fault THEN "Faulted" ELSE "Running"

\* MessageActor.run lines 100-101 and the dispatch: one iteration of the loop.
\* should_stop reads only the actor's own state, which nothing else changes
\* while it waits in receive, so checking it and receiving are one step.
Step(a) ==
    /\ state[a] = "Running"
    /\ IF should_stop(a)
       THEN /\ state' = [state EXCEPT ![a] = "Stopped"]
            /\ UNCHANGED <<inbox, attrs, count, coordVars, nextId, sent, invoked,
                           handed, written>>
       ELSE \E k \in Receivable(inbox[a]) :
              LET msg == inbox[a][k].msg
                  e == Dispatch(a, msg)
              IN  /\ state' = [state EXCEPT ![a] = AfterDispatch(e)]
                  /\ inbox' = PutAll([inbox EXCEPT ![a] = RemoveAt(@, k)], a, e.out)
                  /\ sent' = sent \o Logged(a, e.out)
                  /\ nextId' = nextId + Len(e.out)
                  /\ attrs' = [attrs EXCEPT ![a] = e.attrs]
                  /\ count' = [count EXCEPT ![a] = e.count]
                  /\ iterable' = e.coord.iterable
                  /\ remaining_items' = e.coord.remaining_items
                  /\ result_map' = e.coord.result_map
                  /\ result' = e.coord.result
                  /\ invoked' = [invoked EXCEPT ![a] = @ + e.invoked]
                  /\ handed' = handed \o e.hand
                  /\ written' = [x \in DOMAIN written |->
                                    IF x \in Range(e.wrote) THEN written[x] + 1
                                    ELSE written[x]]
    /\ UNCHANGED <<inputVars, calls, actors, procs, outbox, starts, joins>>

\* A managed actor's process runs MessageActor.run.
ActorLoop(a) ==
    /\ a # Sys
    /\ Step(a)
    /\ UNCHANGED <<pc, i>>

\* The manager runs MessageActor.run inline (MessageActorSystem.run line 240);
\* an exception leaves run, a normal exit goes on to the joins.
ManagerLoop ==
    /\ pc = "loop"
    /\ Step(Sys)
    /\ pc' = CASE state'[Sys] = "Stopped" -> "join"
               [] state'[Sys] = "Faulted" -> "raised"
               [] OTHER -> "loop"
    /\ i' = 1

Main == Connect \/ Bootstrap \/ Populate \/ Start \/ ManagerLoop \/ Join

Next == Main \/ \E a \in Names \ {Sys} : ActorLoop(a)

Spec == Init /\ [][Next]_vars

\* Every process is scheduled: the main thread and each started actor.
FairSpec == Spec /\ WF_vars(Main) /\ \A a \in Names \ {Sys} : WF_vars(ActorLoop(a))


\* ================================================================ claims
Workers == Range(procs)
CallsTo(w) ==
    Cardinality({k \in 1 .. Len(sent) :
                   sent[k].msg.kind = "CALL" /\ sent[k].msg.receiver = w})
\* CALLs the worker has taken out of its mailbox.
CallsTaken(w) ==
    CallsTo(w) - Cardinality({k \in 1 .. Len(inbox[w]) : inbox[w][k].msg.kind = "CALL"})
ReturnsFrom(w) ==
    Cardinality({k \in 1 .. Len(sent) :
                   sent[k].msg.kind = "RETURN" /\ sent[k].via = w})
\* RETURNs of w the coordinator has taken out of its mailbox.
Answered(w) ==
    ReturnsFrom(w)
    - Cardinality({k \in 1 .. Len(inbox[Sys]) :
                     inbox[Sys][k].msg.kind = "RETURN" /\ inbox[Sys][k].via = w})
Outstanding(w) == CallsTo(w) - Answered(w)
EntriesFor(w) ==
    {id \in DOMAIN result_map :
       \E k \in 1 .. Len(sent) : sent[k].msg.id = id /\ sent[k].msg.receiver = w}
RECURSIVE SumOver(_, _)
SumOver(f, s) == IF s = <<>> THEN 0 ELSE f[Head(s)] + SumOver(f, Tail(s))
Expected == [k \in 1 .. Len(xs) |-> add_one(xs[k])]
\* No process can take a step any more: the run is over (or stuck for good).
Quiescent == ~ENABLED Next

\* C1: for every input xs and pool size P >= 1, map(f, xs) returns the list
\* [f(x) for x in xs], whatever the order in which the workers complete: the
\* run of a non-faulting f ends nowhere but in a return of exactly that list.
C1_MapReturnsImage ==
    (prog = "map" /\ raises = {} /\ Quiescent)
        => (pc = "returned" /\ result = Expected)

\* C2: liveness of map: with a mapped function that never faults and every
\* process scheduled fairly, map eventually returns: remaining reaches 0,
\* every worker leaves its loop by should_stop and every join completes.
C2_MapEventuallyReturns ==
    (prog = "map" /\ raises = {})
        => <>(/\ pc = "returned"
              /\ remaining_items = 0
              /\ \A w \in Workers : state[w] = "Stopped" /\ joins[w] = 1)

\* C3: exactly min(len(xs), P) workers are ever started, each input item is
\* handed to exactly one worker, and at the end of the run the numbers of
\* items the workers processed sum to len(xs).
C3_EveryItemHandedOnce ==
    /\ prog = "map" =>
          Cardinality({a \in Names : starts[a] > 0}) <= Min(Len(xs), processes)
    /\ (prog = "map" /\ raises = {} /\ Quiescent) =>
          /\ Cardinality({a \in Names : starts[a] > 0}) = Min(Len(xs), processes)
          /\ \A idx \in 0 .. Len(xs) - 1 :
                Cardinality({k \in 1 .. Len(handed) : handed[k].idx = idx}) = 1
          /\ SumOver(invoked, procs) = Len(xs)

C5_SingleOutstandingCall ==
    prog = "map" =>
        /\ \A w \in Names \ {Sys} :
              Outstanding(w) <= 1 /\ Cardinality(EntriesFor(w)) <= 1
        /\ Cardinality(DOMAIN result_map) <= Len(procs)

C5_Witness ==
    /\ prog = "map"
    /\ pc = "loop"
    /\ Len(procs) >= 2
    /\ \A w \in Workers : Outstanding(w) = 1 /\ Cardinality(EntriesFor(w)) = 1

\* C6: every RETURN that reaches the coordinator names, as its predecessor, a
\* CALL the coordinator sent and still holds in result_map; no result slot is
\* written twice, and over the whole run every index is written exactly once.
C6_EachIndexWrittenOnce ==
    (prog = "map" /\ raises = {}) =>
        /\ \A k \in 1 .. Len(inbox[Sys]) :
              inbox[Sys][k].msg.kind = "RETURN" =>
                 /\ inbox[Sys][k].msg.previous_id \in DOMAIN result_map
                 /\ Cardinality({j \in 1 .. Len(handed) :
                        handed[j].id = inbox[Sys][k].msg.previous_id}) = 1
        /\ \A idx \in DOMAIN written : written[idx] <= 1
        /\ Quiescent => \A idx \in DOMAIN written : written[idx] = 1

\* C7: a manager's run starts every member, then runs its own loop until its
\* should_stop is true, then joins every member; so once run has returned no
\* member is Idle or Running: each has been started once, has left its loop
\* and has been joined once.
C7_RunStartsLoopsJoins ==
    /\ state[Sys] # "Idle" => \A a \in Range(actors) : starts[a] = 1
    /\ (\E a \in Names : joins[a] > 0) => state[Sys] = "Stopped"
    /\ pc = "returned" =>
          \A a \in Range(actors) :
             state[a] \notin {"Idle", "Running"} /\ starts[a] = 1 /\ joins[a] = 1

C7_Witness ==
    /\ pc = "returned"
    /\ Len(actors) >= 2
    /\ \A a \in Range(actors) : joins[a] = 1

\* C8: a worker that faults while handling a CALL has sent no RETURN for it;
\* from then on the worker stays dead, remaining never reaches 0, no error
\* reaches the caller and map does not return.
C8_FaultedWorkerHangsMap ==
    /\ [](prog = "map" =>
            \A w \in Workers :
               state[w] = "Faulted" =>
                  /\ ReturnsFrom(w) < CallsTaken(w)
                  /\ remaining_items # 0
                  /\ pc \notin {"returned", "raised"})
    /\ [][\A w \in Names : state[w] = "Faulted" => state'[w] = "Faulted"]_vars

C8_Witness ==
    /\ prog = "map"
    /\ pc = "loop"
    /\ \E w \in Workers :
          state[w] = "Faulted" /\ xs[1] \in raises /\ CallsTaken(w) = 1

\* C9: one full-mesh connect of a batch of k distinct actors leaves exactly:
\* an edge manager->member and an edge member->manager for each member, both
\* directed edges for every pair of members -- k + 2*C(k,2) edges beyond the k
\* manager->member edges -- and no edge from an actor to itself.
Choose2(k) == (k * (k - 1)) \div 2

C9_FullMeshEdges ==
    (calls = 1 /\ complete) =>
        LET k == Len(batch)
            members == Range(batch)
        IN  /\ Range(outbox[Sys]) = members
            /\ Len(outbox[Sys]) = k
            /\ \A a \in members :
                  /\ Range(outbox[a]) = {Sys} \cup (members \ {a})
                  /\ Len(outbox[a]) = k
            /\ SumOver([a \in Names |-> Len(outbox[a])], batch)
                  = k + 2 * Choose2(k)
            /\ \A a \in Names : a \notin Range(outbox[a])
            /\ \A a \in Names \ (members \cup {Sys}) : outbox[a] = <<>>

C9_Witness ==
    /\ calls = 1
    /\ complete
    /\ Len(batch) >= 3
    /\ Len(outbox[1]) = Len(batch)

\* C10: forwarding scenario: four fully connected actors each forward every
\* DEFAULT message to their whole address book, count it, and stop once the
\* count exceeds 1; when the manager's run has returned all four have
\* stopped that way, and no mailbox holds a message for a running actor.
C10_ForwardingStops ==
    (prog = "forward" /\ complete /\ Len(batch) = 4 /\ calls = 1
     /\ pc = "returned") =>
        /\ \A a \in Range(actors) : state[a] = "Stopped" /\ count[a] > 1
        /\ \A a \in Names : state[a] = "Running" => inbox[a] = <<>>


\* C11: in every reachable state of a map run remaining_items is the number
\* of result slots not yet written; so the coordinator's should_stop() is
\* true (remaining_items = 0) exactly when every slot has been written.
Unwritten == {idx \in DOMAIN written : written[idx] = 0}

C11_RemainingCountsUnwritten ==
    prog = "map" =>
        /\ remaining_items = Cardinality(Unwritten)
        /\ \A idx \in DOMAIN written :
              (written[idx] = 0) <=> (result[idx + 1] = None)
        /\ should_stop(Sys) <=> (Unwritten = {})

C11_Witness ==
    /\ prog = "map"
    /\ pc = "loop"
    /\ Len(xs) >= 2
    /\ remaining_items = Len(xs)
    /\ \E w \in Workers : invoked[w] = 1

\* C12: the stop protocol of a map run whose function does not fault.  The
\* coordinator sends a worker the SET of "_stop" to TRUE only in answer to a
\* RETURN of that worker taken when the source is exhausted, and sends that
\* worker nothing afterwards; a worker that has dispatched it is stopped by
\* its next should_stop() check; and the run does not end before every
\* worker has been sent exactly one such SET and has stopped.
StopSets(w) ==
    {k \in 1 .. Len(sent) :
       /\ sent[k].msg.kind = "SET"
       /\ sent[k].msg.receiver = w
       /\ sent[k].msg.data.name = "_stop"}

C12_StopProtocol ==
    (prog = "map" /\ raises = {}) =>
        \A w \in Workers :
            /\ \A k \in StopSets(w) :
                  /\ sent[k].via = Sys
                  /\ sent[k].msg.data.value = TRUE
                  /\ iterable = Len(xs)
                  /\ Answered(w) >= 1
                  /\ \A j \in k + 1 .. Len(sent) : sent[j].msg.receiver # w
            /\ state[w] = "Stopped" =>
                  /\ Cardinality(StopSets(w)) = 1
                  /\ attrs[w]["_stop"]
            /\ (Quiescent \/ pc = "returned") =>
                  /\ Cardinality(StopSets(w)) = 1
                  /\ state[w] = "Stopped"

\* C13: a map run is wired as a star.  Once connect has run, each worker's
\* outbox holds the coordinator and nothing else, the coordinator's outbox
\* holds exactly the workers; every envelope in a worker's mailbox was put
\* there by the coordinator, and every envelope a worker sends goes to the
\* coordinator.
C13_StarTopology ==
    (prog = "map" /\ pc # "connect") =>
        /\ outbox[Sys] = batch
        /\ \A w \in Names \ {Sys} :
              /\ outbox[w] = IF w \in Range(batch) THEN <<Sys>> ELSE <<>>
              /\ \A k \in 1 .. Len(inbox[w]) : inbox[w][k].via = Sys
        /\ \A k \in 1 .. Len(sent) :
              /\ sent[k].via # Sys => sent[k].msg.receiver = Sys
              /\ sent[k].via = Sys => sent[k].msg.receiver \in Range(batch)

C13_Witness ==
    /\ prog = "map"
    /\ Len(batch) = 2
    /\ pc = "loop"
    /\ \A w \in Range(batch) : state[w] = "Running"
    /\ \E w \in Range(batch) : inbox[w] # <<>>

\* C14: the life of an actor is Idle, then Running, then Stopped (or Faulted
\* when dispatch raises).  should_stop() is evaluated at the top of the loop
\* only: an actor is Stopped only with its should_stop() true, the step that
\* takes an envelope out of a mailbox is taken by a Running actor whose
\* should_stop() was false and never ends in Stopped, Stopped is terminal,
\* and the mailbox of a Stopped actor only grows: what is delivered after the
\* stop stays buffered.
IsPrefix(s, t) == Len(s) <= Len(t) /\ \A k \in 1 .. Len(s) : s[k] = t[k]

Lifecycle == {<<"Idle", "Running">>, <<"Running", "Stopped">>,
              <<"Running", "Faulted">>}

HandlesOf(a) == {k \in 1 .. Len(procs) : procs[k] = a}

C15_OneHandlePerMember ==
    /\ \A a \in Range(actors) : Cardinality(HandlesOf(a)) = 1
    /\ \A a \in Names :
          /\ joins[a] <= starts[a]
          /\ starts[a] <= 1
          /\ starts[a] = 1 => a \in Range(actors)
    /\ pc = "returned" =>
          \A a \in Range(actors) : starts[a] = 1 /\ joins[a] = 1

C15_Witness ==
    /\ pc = "returned"
    /\ calls = 2
    /\ Len(procs) >= 2
    /\ Len(actors) > Len(procs)
    /\ \A a \in Range(actors) : joins[a] = 1

\* C16: dispatch of a CALL.  Once an actor has taken a CALL out of its
\* mailbox and the named operation has returned, it has sent exactly one
\* RETURN for it if the CALL has a sender and wants a return (the default),
\* and none otherwise; the RETURN goes to the CALL's sender, names the actor
\* as its sender, carries the result and has the CALL's id as previous_id.
ReturnsFor(c) ==
    {j \in 1 .. Len(sent) :
       sent[j].msg.kind = "RETURN" /\ sent[j].msg.previous_id = c.id}

TakenFromMailbox(c) ==
    \A j \in 1 .. Len(inbox[c.receiver]) : inbox[c.receiver][j].msg.id # c.id

C16_CallSendsOneReturn ==
    \A k \in 1 .. Len(sent) :
        sent[k].msg.kind = "CALL" =>
            LET c == sent[k].msg
                wanted == c.sender # None /\ WantReturn(c.data)
                returned == TakenFromMailbox(c) /\ Args(c.data)[1] \notin raises
            IN  /\ (returned /\ wanted) => Cardinality(ReturnsFor(c)) = 1
                /\ ~(returned /\ wanted) => ReturnsFor(c) = {}
                /\ \A j \in ReturnsFor(c) :
                      /\ sent[j].via = c.receiver
                      /\ sent[j].msg.sender = c.receiver
                      /\ sent[j].msg.receiver = c.sender
                      /\ sent[j].msg.data = add_one(Args(c.data)[1])

\* C17: bootstrap ordering of a map run.  The SET that installs the mapped
\* function is sent to a worker before any CALL to it, and every worker has
\* been sent both before any worker is started; mailboxes keep the order of
\* one sender, so a worker that has taken a CALL had the function in its
\* attrs and invoked it (no CALL is dispatched against a missing "_func").
InstallSets(w) ==
    {k \in 1 .. Len(sent) :
       /\ sent[k].msg.kind = "SET"
       /\ sent[k].msg.receiver = w
       /\ sent[k].msg.data.name = "_func"}

C17_FuncInstalledBeforeCall ==
    prog = "map" =>
        /\ \A k \in 1 .. Len(sent) :
              sent[k].msg.kind = "CALL" =>
                  \E j \in InstallSets(sent[k].msg.receiver) : j < k
        /\ (\E a \in Names : state[a] # "Idle") =>
              \A w \in Range(batch) : InstallSets(w) # {} /\ CallsTo(w) >= 1
        /\ \A w \in Range(batch) :
              CallsTaken(w) > 0 =>
                  /\ "_func" \in DOMAIN attrs[w]
                  /\ invoked[w] = CallsTaken(w)

C17_Witness ==
    /\ prog = "map"
    /\ Len(batch) = 2
    /\ \E w \in Range(batch) : CallsTaken(w) = 1 /\ invoked[w] = 1
    /\ \E w \in Range(batch) : state[w] = "Running" /\ Len(inbox[w]) = 2

\* C18: conservation in a map run.  remaining_items is the number of entries
\* of result_map (items in flight) plus the number of items not yet drawn
\* from the source; the indices in result_map are pairwise distinct and none
\* of them has been written; and when remaining_items is 0, result_map is
\* empty and the source is exhausted.
C18_Conservation ==
    prog = "map" =>
        /\ remaining_items
              = Cardinality(DOMAIN result_map) + (Len(xs) - iterable)
        /\ \A id1, id2 \in DOMAIN result_map :
              id1 # id2 => result_map[id1] # result_map[id2]
        /\ \A id \in DOMAIN result_map :
              /\ result_map[id] \in DOMAIN written
              /\ written[result_map[id]] = 0
        /\ remaining_items = 0 =>
              (DOMAIN result_map = {} /\ iterable = Len(xs))

C18_Witness ==
    /\ prog = "map"
    /\ pc = "loop"
    /\ Len(xs) = 3
    /\ Cardinality(DOMAIN result_map) = 2
    /\ iterable = 2
    /\ remaining_items = 3

C20_EmptyInput ==
    (prog = "map" /\ xs = <<>>) =>
        /\ batch = <<>> /\ actors = <<>> /\ procs = <<>>
        /\ sent = <<>>
        /\ \A a \in Names : inbox[a] = <<>> /\ state[a] \in {"Idle", "Running", "Stopped"}
        /\ pc # "raised"
        /\ pc = "loop" => should_stop(Sys)
        /\ pc = "returned" => result = <<>>
        /\ Quiescent => pc = "returned"

C20_Witness ==
    /\ prog = "map"
    /\ xs = <<>>
    /\ processes = MaxProcs
    /\ state[Sys] = "Stopped"
    /\ pc = "returned"
    /\ result = <<>>

====
